---------------------------- MODULE Spec2Model ----------------------------
(***************************************************************************)
(* Model of the loudness estimator of the Jump Cutter extension:           *)
(* SingleChannelRingBuffer and VolumeFilterProcessor of                    *)
(* src/entry-points/content/VolumeFilter/VolumeFilterNode.ts.              *)
(*                                                                         *)
(* Numbers.  Durations (seconds in the source) are integers counted in     *)
(* ticks, TicksPerSample ticks to one sample period, so that               *)
(* numSeconds * sampleRate is ticks / TicksPerSample and Math.round is a   *)
(* real rounding.  Samples are small integers; a mean square over C        *)
(* channels is kept as the integer Scale * (sum of squares) / C, which is  *)
(* exact because every channel count divides Scale.  The running sum is    *)
(* such a scaled integer or NaN.  An output sample sqrt(s / W) is kept as  *)
(* the pair of s and W (or Infinity / NaN where JavaScript yields them).   *)
(* Binary floating point is exact on the values used here (integers and    *)
(* halves), so the integer arithmetic below is the arithmetic the code     *)
(* performs on these inputs.                                               *)
(***************************************************************************)
EXTENDS Integers, Sequences, FiniteSets, TLC

\* ------------------------------------------------------------------ bounds
\* Ticks per sample period (the unit of the durations).
TicksPerSample == 4
\* The longest window, in samples, a processor is constructed with.
MaxWindowSamples == 3
\* The number of process() calls of one run.
MaxCalls == 2
\* Calls of addOnChangedListener, removeOnChangedListener and storage changes.
MaxStorageCalls == 4
\* Keydown events delivered to the popup.
MaxKeydowns == 3
\* The render quantum: 128 samples in the source, scaled down here.
SAMPLES_PER_QUANTUM == 2

\* Sample values of the input blocks.
Samples == {-1, 0}
\* Numbers of input channels of a block.  Powers of two, so that the division
\* by the number of channels is exact in binary floating point as well.
ChannelCounts == {0, 1, 2}

\* Every channel count divides Scale.
Scale == CHOOSE s \in 1..16 :
           /\ \A c \in ChannelCounts \ {0} : s % c = 0
           /\ \A t \in 1..(s - 1) : \E c \in ChannelCounts \ {0} : t % c # 0

\* ------------------------------------------------------- JavaScript values

\* A number that may be NaN (the running sum).
Num(x) == [nan |-> FALSE, v |-> x]
NaNValue == [nan |-> TRUE, v |-> 0]
\* What an element read this[i] yields: a slot's value, or undefined.
Slot(x) == [k |-> "value", v |-> x]
undefinedValue == [k |-> "undefined", v |-> 0]
\* getReverse() throwing instead of returning.
RangeErrorThrown == [k |-> "RangeError", v |-> 0]
\* An output sample: sqrt(num / (Scale * den)), Infinity or NaN.
Sqrt(num, den) == [k |-> "sqrt", num |-> num, den |-> den]
InfinityValue == [k |-> "Infinity", num |-> 0, den |-> 0]
NaNSample == [k |-> "NaN", num |-> 0, den |-> 0]
ZeroSample == Sqrt(0, 1)

\* Durations a processor can be constructed with: negative, zero, a positive
\* one shorter than half a sample, and whole numbers of samples.
CtorDurations ==
  {-TicksPerSample, 0, 1} \cup {k * TicksPerSample : k \in 1..MaxWindowSamples}
\* Values of the k-rate parameter smoothingWindowLength (minValue 0).
ParamDurations ==
  {0, 1} \cup {k * TicksPerSample : k \in 1..(MaxWindowSamples + 1)}

\* Math.round(numSeconds * sampleRate): the nearest integer, halves upwards.
windowLengthNumSecondsToSamples(numSeconds) ==
  (2 * numSeconds + TicksPerSample) \div (2 * TicksPerSample)

\* ---------------------------------------------------------------- state
VARIABLES
  IS_DEV_MODE,              \* build flag
  phase,                    \* "none" | "constructed" | "failed"
  maxSmoothingWindowLength, \* this._options.maxSmoothingWindowLength (ticks)
  smoothingWindowLength,    \* value of the AudioParam smoothingWindowLength (ticks)
  ringBuffer,               \* the Float32Array slots, indices 0..length-1
  lastSampleI,              \* SingleChannelRingBuffer._lastSampleI
  currWindowSquaresSum,     \* this._currWindowSquaresSum
  outputChannel,            \* outputs[0][0], positions 1..SAMPLES_PER_QUANTUM
  devErrorShown,            \* module-level flag
  outcome,                  \* how the last call ended: "none" (no call yet),
                            \* "constructed", "noInput" (process returned at
                            \* the zero-channel check), "done" (process ran the
                            \* sample loop and returned), "Error", "RangeError"
  numCalls,                 \* process() calls made so far
  trace,                    \* history: one record per sample the loop processed
  windowsUsed,              \* history: smoothingWindowLengthSamples of the calls
                            \* that entered the sample loop
  outputWritten,            \* history: the positions of outputs[0][0] the last
                            \* process() call assigned, in the order of the writes
  blockShape,               \* history: whether the block the last process()
                            \* call was given had a channel, and its numSamples
  numErrorsLogged,          \* console.error calls of the one-shot diagnostic
  mismatchSeen,             \* history: some process() call found windowSamples
                            \* different from the one of maxSmoothingWindowLength
  instances,                \* VolumeFilterProcessor objects of one
                            \* AudioWorkletGlobalScope, by identity
  instanceCalls,            \* history: the objects process() was called on,
                            \* in the order of the calls
  nativeListeners,          \* callbacks registered on chrome.storage.onChanged
  wrapperSource,            \* the actualListener closures made so far, each with
                            \* the listener it closes over
  srcListenerToWrapperListener, \* the WeakMap of hotkeys.ts (0: no entry)
  attached,                 \* history: listeners added and not removed since
  dispatches,               \* history: the storage changes so far, each with
                            \* the calls of listeners it made, in order
  numWarnings,              \* console.warn calls of removeOnChangedListener
  numStorageCalls,          \* add/remove calls and storage changes so far
  popupDisableHotkeysWhileInputFocused, \* the setting getSettings() returns
  timers,                   \* pending setTimeout(undeferred, 0, e), oldest first
  effects,                  \* history: onNewSettingsValues calls and messages
                            \* posted on nonSettingsActionsPort, in order
  handled,                  \* history: the events whose timer ran, each with the
                            \* setting at that moment
  numKeydowns               \* keydown events delivered so far

\* The module-level state of VolumeFilterNode.ts and the build flag.
moduleVars == <<IS_DEV_MODE, devErrorShown, numErrorsLogged, mismatchSeen>>

\* The processor followed on its own.
processorVars == <<phase, maxSmoothingWindowLength, smoothingWindowLength,
                   ringBuffer, lastSampleI, currWindowSquaresSum, outputChannel,
                   outcome, numCalls, trace, windowsUsed, outputWritten,
                   blockShape>>

\* Several processors side by side.
instanceVars == <<instances, instanceCalls>>

\* popup/hotkeys.ts: the storage listeners.
storageVars == <<nativeListeners, wrapperSource, srcListenerToWrapperListener,
                 attached, dispatches, numWarnings, numStorageCalls>>

\* popup/hotkeys.ts: the keydown listener.
keydownVars == <<popupDisableHotkeysWhileInputFocused, timers, effects, handled,
                 numKeydowns>>

vars == <<moduleVars, processorVars, instanceVars, storageVars, keydownVars>>

\* ------------------------------------------------- SingleChannelRingBuffer
\* Float32Array.length
Length(buf) == Cardinality(DOMAIN buf)

\* A ring buffer that allocates one slot more than asked.
NewRingBuffer_OneMore(length) ==
  [buf |-> [i \in 0..length |-> 0], last |-> length]

\* new SingleChannelRingBuffer(length): zero-filled, cursor on the last slot.
NewRingBuffer(length) ==
  [buf |-> [i \in 0..(length - 1) |-> 0], last |-> length - 1]

\* push(val) with the wrap test off by one: the cursor reaches length.
push_LateWrap(buf, last, val) ==
  LET inc == last + 1
      cur == IF inc > Length(buf) THEN 0 ELSE inc
  IN [buf |-> IF cur \in DOMAIN buf THEN [buf EXCEPT ![cur] = val] ELSE buf,
      last |-> cur]

\* push(val)
push(buf, last, val) ==
  LET inc == last + 1
      cur == IF inc >= Length(buf) THEN 0 ELSE inc
  IN [buf |-> IF cur \in DOMAIN buf THEN [buf EXCEPT ![cur] = val] ELSE buf,
      last |-> cur]

\* JavaScript a % n: the sign of the dividend; NaN (no index) when n = 0.
\* The result -0 names the element 0.
JsRemainderIndex(a, n) ==
  IF n = 0 THEN -1
  ELSE IF a >= 0 THEN a % n
  ELSE -((-a) % n)

\* this[i]: the slot, or undefined when i is no index of the array.
ElementAt(buf, i) ==
  IF i \in DOMAIN buf THEN Slot(buf[i]) ELSE undefinedValue

\* getReverse(depth) without the wrap-around of the index.
getReverse_NoWrap(dev, buf, last, depth) ==
  IF dev /\ depth >= Length(buf) THEN RangeErrorThrown
  ELSE ElementAt(buf, last - depth)

\* getReverse(depth)
getReverse(dev, buf, last, depth) ==
  IF dev /\ depth >= Length(buf) THEN RangeErrorThrown
  ELSE ElementAt(buf, JsRemainderIndex(last - depth + Length(buf), Length(buf)))

\* ---------------------------------------------------------- arithmetic
\* a - b where b was read from the buffer (undefined converts to NaN).
Subtract(a, b) ==
  IF a.nan \/ b.k = "undefined" THEN NaNValue ELSE Num(a.v - b.v)

\* a + x for a finite x
Add(a, x) == IF a.nan THEN NaNValue ELSE Num(a.v + x)

\* Math.max(a, 0)
MathMaxZero(a) == IF a.nan THEN NaNValue ELSE IF a.v > 0 THEN a ELSE Num(0)

\* Math.sqrt(sum), the division by the window length forgotten.
Volume_NoWindowDivision(sum, windowSamples) ==
  IF sum.nan THEN NaNSample ELSE Sqrt(sum.v, 1)

\* Math.sqrt(sum / windowSamples), windowSamples >= 0
Volume(sum, windowSamples) ==
  IF sum.nan THEN NaNSample
  ELSE IF windowSamples = 0
       THEN (IF sum.v = 0 THEN NaNSample ELSE InfinityValue)
       ELSE Sqrt(sum.v, windowSamples)

\* sum over the channels of sample ** 2, at position sampleI of the block
RECURSIVE SquareSum(_, _, _)
SquareSum(input, sampleI, channelI) ==
  IF channelI > Len(input) THEN 0
  ELSE input[channelI][sampleI] * input[channelI][sampleI]
       + SquareSum(input, sampleI, channelI + 1)

\* allChannelsSampleSquareSum, the division by numChannels forgotten.
MeanSquare_NoChannelMean(input, sampleI) ==
  SquareSum(input, sampleI, 1) * Scale

\* allChannelsSampleSquareSum / numChannels, scaled by Scale
MeanSquare(input, sampleI) ==
  SquareSum(input, sampleI, 1) * (Scale \div Len(input))

\* History only: <<v>> when all channels carry the value v at sampleI, else <<>>.
CommonValue(input, sampleI) ==
  IF \A c \in 1..Len(input) : input[c][sampleI] = input[1][sampleI]
  THEN <<input[1][sampleI]>> ELSE <<>>

\* ------------------------------------------------- VolumeFilterProcessor
\* One iteration of the sample loop, on the state st of the processor during
\* the call: the ring buffer, the running sum, the output block, the history.
SampleStep(st, dev, input, windowSamples, sampleI) ==
  LET allChannelsSampleMeanSquare == MeanSquare(input, sampleI)
      lastWindowSampleSquare ==
        getReverse(dev, st.buf, st.last, windowSamples - 1)
      sum == MathMaxZero(Add(Subtract(st.sum, lastWindowSampleSquare),
                             allChannelsSampleMeanSquare))
      rb == push(st.buf, st.last, allChannelsSampleMeanSquare)
      currVolume == Volume(sum, windowSamples)
  IN IF lastWindowSampleSquare = RangeErrorThrown
     THEN [st EXCEPT !.outcome = "RangeError"]
     ELSE [buf |-> rb.buf, last |-> rb.last, sum |-> sum,
           out |-> IF sampleI \in DOMAIN st.out
                   THEN [st.out EXCEPT ![sampleI] = currVolume] ELSE st.out,
           written |-> IF sampleI \in DOMAIN st.out
                       THEN Append(st.written, sampleI) ELSE st.written,
           outcome |-> "done",
           trace |-> Append(st.trace,
                            [ms |-> allChannelsSampleMeanSquare,
                             common |-> CommonValue(input, sampleI),
                             sum |-> sum, volume |-> currVolume])]

\* for (let sampleI = 0; sampleI < numSamples; sampleI++) { ... }
RECURSIVE SampleLoop(_, _, _, _, _)
\* The loop with the bound sampleI < numSamples - 1: the last sample is left out.
SampleLoop_OneShort(st, dev, input, windowSamples, sampleI) ==
  IF sampleI >= Len(input[1]) \/ st.outcome = "RangeError" THEN st
  ELSE SampleLoop(SampleStep(st, dev, input, windowSamples, sampleI),
                  dev, input, windowSamples, sampleI + 1)

SampleLoop(st, dev, input, windowSamples, sampleI) ==
  IF sampleI > Len(input[1]) \/ st.outcome = "RangeError" THEN st
  ELSE SampleLoop(SampleStep(st, dev, input, windowSamples, sampleI),
                  dev, input, windowSamples, sampleI + 1)

\* The input blocks: C channels of N samples each.
Blocks ==
  UNION {[1..c -> [1..n -> Samples]] :
           c \in ChannelCounts,
           n \in {SAMPLES_PER_QUANTUM - 1, SAMPLES_PER_QUANTUM}}

\* The value an AudioParam takes when set to d: within [minValue, maxValue],
\* minValue being 0 and maxValue the largest float.
ParameterValue(d) == IF d < 0 THEN 0 ELSE d

\* new VolumeFilterProcessor(options), where options.parameterData holds
\* smoothingWindowLength and options.processorOptions may hold
\* maxSmoothingWindowLength (processorOptions is {} or {that value}).
Construct(initialWindowLength, processorOptions) ==
  LET max == IF processorOptions = {} THEN initialWindowLength
             ELSE CHOOSE d \in processorOptions : TRUE
      bufferLength == windowLengthNumSecondsToSamples(max)
      rb == NewRingBuffer(bufferLength)
  IN /\ phase = "none"
     /\ maxSmoothingWindowLength' = max
     /\ smoothingWindowLength' = ParameterValue(initialWindowLength)
     /\ currWindowSquaresSum' = Num(0)
     /\ IF bufferLength < 0
        THEN \* new Float32Array(negative) throws
             /\ phase' = "failed"
             /\ outcome' = "RangeError"
             /\ UNCHANGED <<ringBuffer, lastSampleI>>
        ELSE /\ phase' = "constructed"
             /\ outcome' = "constructed"
             /\ ringBuffer' = rb.buf
             /\ lastSampleI' = rb.last
     /\ UNCHANGED <<outputChannel, numCalls, trace, windowsUsed, outputWritten,
                    blockShape>>
     /\ UNCHANGED <<moduleVars, instanceVars, storageVars, keydownVars>>

\* The diagnostic of process() that logs whenever the lengths differ.
DevError_EveryCall(dev, shown, windowSamples, maxLength) ==
  LET log == dev /\ windowSamples # windowLengthNumSecondsToSamples(maxLength)
  IN [shown |-> shown \/ log, logged |-> IF log THEN 1 ELSE 0]

\* The one-shot development diagnostic of process(): the flag devErrorShown
\* after it and the number of console.error calls it made.
DevError(dev, shown, windowSamples, maxLength) ==
  LET log == /\ dev
             /\ windowSamples # windowLengthNumSecondsToSamples(maxLength)
             /\ ~shown
  IN [shown |-> shown \/ log, logged |-> IF log THEN 1 ELSE 0]

\* devErrorShown after a call of process() on the processor followed alone.
DevErrorShownAfter(windowSamples) ==
  DevError(IS_DEV_MODE, devErrorShown, windowSamples,
           maxSmoothingWindowLength).shown

\* History only: whether the call finds the two lengths different.
Mismatch(windowSamples, maxLength) ==
  windowSamples # windowLengthNumSecondsToSamples(maxLength)

\* The control thread sets the AudioParam to another value between two blocks.
SetParameter(d) ==
  /\ phase = "constructed"
  /\ numCalls < MaxCalls
  /\ ParameterValue(d) # smoothingWindowLength
  /\ smoothingWindowLength' = ParameterValue(d)
  /\ UNCHANGED <<phase, maxSmoothingWindowLength, ringBuffer,
                 lastSampleI, currWindowSquaresSum, outputChannel,
                 outcome, numCalls, trace, windowsUsed, outputWritten,
                 blockShape>>
  /\ UNCHANGED <<moduleVars, instanceVars, storageVars, keydownVars>>

\* process() that writes silence to the output when there is no input channel.
ProcessBody_SilenceOnNoInput(st, dev, input, windowSamples) ==
  IF Len(input) = 0
  THEN [st EXCEPT !.outcome = "noInput",
                  !.out = [i \in DOMAIN st.out |-> ZeroSample]]
  ELSE IF dev /\ Len(input[1]) # SAMPLES_PER_QUANTUM
       THEN [st EXCEPT !.outcome = "Error"]
       ELSE SampleLoop([st EXCEPT !.outcome = "done"], dev, input,
                       windowSamples, 1)

\* process() that, in production, returns before the loop on a block whose
\* length is not SAMPLES_PER_QUANTUM.
ProcessBody_SkipOddBlock(st, dev, input, windowSamples) ==
  IF Len(input) = 0 THEN [st EXCEPT !.outcome = "noInput"]
  ELSE IF Len(input[1]) # SAMPLES_PER_QUANTUM
       THEN [st EXCEPT !.outcome = IF dev THEN "Error" ELSE "done"]
       ELSE SampleLoop([st EXCEPT !.outcome = "done"], dev, input,
                       windowSamples, 1)

\* process() that tests the block length after the sample loop.
ProcessBody_ThrowAfterLoop(st, dev, input, windowSamples) ==
  IF Len(input) = 0 THEN [st EXCEPT !.outcome = "noInput"]
  ELSE LET end == SampleLoop([st EXCEPT !.outcome = "done"], dev, input,
                             windowSamples, 1)
       IN IF dev /\ Len(input[1]) # SAMPLES_PER_QUANTUM
          THEN [end EXCEPT !.outcome = "Error"]
          ELSE end

\* The body of process() from the zero-channel check on, as the state the
\* call leaves: st is the processor's state and the output block at the call.
ProcessBody(st, dev, input, windowSamples) ==
  IF Len(input) = 0 THEN [st EXCEPT !.outcome = "noInput"]
  ELSE IF dev /\ Len(input[1]) # SAMPLES_PER_QUANTUM
       THEN [st EXCEPT !.outcome = "Error"]
       ELSE SampleLoop([st EXCEPT !.outcome = "done"], dev, input,
                       windowSamples, 1)

\* History only: input.length >= 1 and input[0].length (0 without a channel).
Shape(input) ==
  [hasChannels |-> Len(input) >= 1,
   numSamples |-> IF Len(input) = 0 THEN 0 ELSE Len(input[1])]

\* process(inputs, outputs, parameters) with inputs[0] = input;
\* parameters.smoothingWindowLength[0] is the AudioParam's value.
Process(input) ==
  LET smoothingWindowLengthSamples ==
        windowLengthNumSecondsToSamples(smoothingWindowLength)
      st == [buf |-> ringBuffer, last |-> lastSampleI,
             sum |-> currWindowSquaresSum, out |-> outputChannel,
             written |-> <<>>, outcome |-> outcome, trace |-> trace]
      end == ProcessBody(st, IS_DEV_MODE, input, smoothingWindowLengthSamples)
  IN /\ phase = "constructed"
     /\ numCalls < MaxCalls
     /\ numCalls' = numCalls + 1
     /\ devErrorShown' = DevErrorShownAfter(smoothingWindowLengthSamples)
     /\ numErrorsLogged' =
          numErrorsLogged + DevError(IS_DEV_MODE, devErrorShown,
                                     smoothingWindowLengthSamples,
                                     maxSmoothingWindowLength).logged
     /\ mismatchSeen' = (mismatchSeen
                         \/ Mismatch(smoothingWindowLengthSamples,
                                     maxSmoothingWindowLength))
     /\ outputWritten' = end.written
     /\ blockShape' = Shape(input)
     /\ ringBuffer' = end.buf
     /\ lastSampleI' = end.last
     /\ currWindowSquaresSum' = end.sum
     /\ outputChannel' = end.out
     /\ outcome' = end.outcome
     /\ trace' = end.trace
     /\ windowsUsed' = IF end.outcome \in {"done", "RangeError"}
                       THEN windowsUsed \cup {smoothingWindowLengthSamples}
                       ELSE windowsUsed
     /\ UNCHANGED <<IS_DEV_MODE, phase, maxSmoothingWindowLength,
                    smoothingWindowLength>>
     /\ UNCHANGED <<instanceVars, storageVars, keydownVars>>

\* ------------------------------------------------------ popup/hotkeys.ts
\* The listeners the popup attaches.
Listeners == {"l1", "l2"}

\* Storage areas of chrome.storage and the change sets of the events.
Areas == {"local", "sync", "managed"}
ChangeSets == {"changesA", "changesB"}

\* The sequence q without its elements equal to x.
RECURSIVE Without(_, _)
Without(q, x) ==
  IF q = <<>> THEN <<>>
  ELSE IF Head(q) = x THEN Without(Tail(q), x)
       ELSE <<Head(q)>> \o Without(Tail(q), x)

\* actualListener without the test of areaName.
actualListener_NoAreaFilter(listener, changes, areaName) ==
  <<[listener |-> listener, changes |-> changes]>>

\* actualListener(changes, areaName), the closure addOnChangedListener makes
\* for `listener`: the calls of listener it makes.
actualListener(listener, changes, areaName) ==
  IF areaName # "local" THEN <<>>
  ELSE <<[listener |-> listener, changes |-> changes]>>

\* addOnChangedListener(listener): a new closure each time, entered in the
\* WeakMap under listener (replacing an earlier entry) and registered.
addOnChangedListener(listener) ==
  LET w == Len(wrapperSource) + 1
  IN /\ numStorageCalls < MaxStorageCalls
     /\ numStorageCalls' = numStorageCalls + 1
     /\ wrapperSource' = Append(wrapperSource, listener)
     /\ srcListenerToWrapperListener' =
          [srcListenerToWrapperListener EXCEPT ![listener] = w]
     /\ nativeListeners' = Append(nativeListeners, w)
     /\ attached' = attached \cup {listener}
     /\ UNCHANGED <<dispatches, numWarnings>>
     /\ UNCHANGED <<moduleVars, processorVars, instanceVars, keydownVars>>

\* removeOnChangedListener(listener): the WeakMap keeps its entry.
removeOnChangedListener(listener) ==
  LET w == srcListenerToWrapperListener[listener]
  IN /\ numStorageCalls < MaxStorageCalls
     /\ numStorageCalls' = numStorageCalls + 1
     /\ attached' = attached \ {listener}
     /\ IF w = 0
        THEN /\ numWarnings' = numWarnings + (IF IS_DEV_MODE THEN 1 ELSE 0)
             /\ UNCHANGED nativeListeners
        ELSE /\ nativeListeners' = Without(nativeListeners, w)
             /\ UNCHANGED numWarnings
     /\ UNCHANGED <<wrapperSource, srcListenerToWrapperListener, dispatches>>
     /\ UNCHANGED <<moduleVars, processorVars, instanceVars, keydownVars>>

\* The calls of listeners made by the registered closures ws, in their order.
RECURSIVE Dispatch(_, _, _)
Dispatch(ws, changes, areaName) ==
  IF ws = <<>> THEN <<>>
  ELSE actualListener(wrapperSource[Head(ws)], changes, areaName)
       \o Dispatch(Tail(ws), changes, areaName)

\* chrome.storage.onChanged fires: every registered callback is called.
StorageChange(changes, areaName) ==
  /\ numStorageCalls < MaxStorageCalls
  /\ numStorageCalls' = numStorageCalls + 1
  /\ dispatches' =
       Append(dispatches,
              [area |-> areaName, changes |-> changes,
               called |-> Dispatch(nativeListeners, changes, areaName)])
  /\ UNCHANGED <<nativeListeners, wrapperSource, srcListenerToWrapperListener,
                 attached, numWarnings>>
  /\ UNCHANGED <<moduleVars, processorVars, instanceVars, keydownVars>>

\* The keydown events: whether eventTargetIsInput(e).
KeydownEvents == BOOLEAN

\* undeferred(e) with getSettings().popupDisableHotkeysWhileInputFocused =
\* setting: the calls it makes, in order.
undeferred(e, setting) ==
  IF e.targetIsInput /\ setting THEN <<>>
  ELSE <<[call |-> "onNewSettingsValues", event |-> e.id],
         [call |-> "postMessage", event |-> e.id]>>

\* The listener createKeydownListener returns running undeferred at once.
KeydownListener_Undeferred(e, pending, done, setting) ==
  [timers |-> pending,
   effects |-> done \o undeferred(e, setting)]

\* (e) => setTimeout(undeferred, 0, e): what the call leaves behind.
KeydownListener(e, pending, done, setting) ==
  [timers |-> Append(pending, e), effects |-> done]

\* A keydown event reaches the listener createKeydownListener returned.
Keydown(targetIsInput) ==
  LET e == [id |-> numKeydowns + 1, targetIsInput |-> targetIsInput]
      after == KeydownListener(e, timers, effects,
                               popupDisableHotkeysWhileInputFocused)
  IN /\ numKeydowns < MaxKeydowns
     /\ numKeydowns' = numKeydowns + 1
     /\ timers' = after.timers
     /\ effects' = after.effects
     /\ UNCHANGED <<popupDisableHotkeysWhileInputFocused, handled>>
     /\ UNCHANGED <<moduleVars, processorVars, instanceVars, storageVars>>

\* The oldest timer fires: undeferred(e) runs with the settings of now.
RunTimer ==
  /\ timers # <<>>
  /\ timers' = Tail(timers)
  /\ effects' = effects \o undeferred(Head(timers),
                                      popupDisableHotkeysWhileInputFocused)
  /\ handled' = Append(handled,
                       [event |-> Head(timers),
                        setting |-> popupDisableHotkeysWhileInputFocused])
  /\ UNCHANGED <<popupDisableHotkeysWhileInputFocused, numKeydowns>>
  /\ UNCHANGED <<moduleVars, processorVars, instanceVars, storageVars>>

\* The user switches the setting (getSettings() returns the live settings).
ChangeSetting ==
  /\ timers # <<>> \/ numKeydowns < MaxKeydowns
  /\ popupDisableHotkeysWhileInputFocused' =
       ~popupDisableHotkeysWhileInputFocused
  /\ UNCHANGED <<timers, effects, handled, numKeydowns>>
  /\ UNCHANGED <<moduleVars, processorVars, instanceVars, storageVars>>

\* ------------------------------------------ several VolumeFilterProcessors
\* The processors of one AudioWorkletGlobalScope.
InstanceIds == {1, 2}

\* Durations the side-by-side processors are constructed with.
InstanceDurations == {TicksPerSample, 2 * TicksPerSample}

\* The blocks they are given: no channel, or one channel.
InstanceBlocks == {b \in Blocks : Len(b) <= 1}

\* The fields of a processor the claims follow.
Fields(p) ==
  [buf |-> p.buf, last |-> p.last, sum |-> p.sum, out |-> p.out,
   outcome |-> p.outcome]

\* No object yet.
NoInstance ==
  LET f == [buf |-> <<>>, last |-> -1, sum |-> Num(0),
            out |-> [k \in 1..SAMPLES_PER_QUANTUM |-> ZeroSample],
            outcome |-> "none"]
  IN [phase |-> "none", max |-> 0, param |-> 0, buf |-> f.buf, last |-> f.last,
      sum |-> f.sum, out |-> f.out, outcome |-> f.outcome, alone |-> f]

\* new VolumeFilterProcessor(options) as the object it makes.
NewProcessor(initialWindowLength, processorOptions) ==
  LET max == IF processorOptions = {} THEN initialWindowLength
             ELSE CHOOSE d \in processorOptions : TRUE
      bufferLength == windowLengthNumSecondsToSamples(max)
      rb == NewRingBuffer(bufferLength)
      f == [buf |-> rb.buf, last |-> rb.last, sum |-> Num(0),
            out |-> [k \in 1..SAMPLES_PER_QUANTUM |-> ZeroSample],
            outcome |-> "constructed"]
  IN IF bufferLength < 0
     THEN [NoInstance EXCEPT !.phase = "failed", !.outcome = "RangeError"]
     ELSE [phase |-> "constructed", max |-> max,
           param |-> ParameterValue(initialWindowLength),
           buf |-> f.buf, last |-> f.last, sum |-> f.sum, out |-> f.out,
           outcome |-> f.outcome, alone |-> f]

\* process() reading the ring buffer from a variable of the module, the one
\* the first processor made, where it should read this._sampleSquaresRingBuffer.
InstanceView_SharedBuffer(insts, i) ==
  LET first == CHOOSE j \in InstanceIds : \A k \in InstanceIds : j <= k
  IN [buf |-> insts[first].buf, last |-> insts[first].last,
      sum |-> insts[i].sum, out |-> insts[i].out, written |-> <<>>,
      outcome |-> insts[i].outcome, trace |-> <<>>]

\* What process() called on the object i works on: the fields of `this` and
\* the output block of that node.
InstanceView(insts, i) ==
  [buf |-> insts[i].buf, last |-> insts[i].last,
   sum |-> insts[i].sum, out |-> insts[i].out, written |-> <<>>,
   outcome |-> insts[i].outcome, trace |-> <<>>]

\* History only: the same call on the object as it is when run alone.
AloneView(insts, i) ==
  [buf |-> insts[i].alone.buf, last |-> insts[i].alone.last,
   sum |-> insts[i].alone.sum, out |-> insts[i].alone.out, written |-> <<>>,
   outcome |-> insts[i].alone.outcome, trace |-> <<>>]

InstanceConstruct(i, initialWindowLength, processorOptions) ==
  /\ instances[i].phase = "none"
  /\ instances' = [instances EXCEPT
                     ![i] = NewProcessor(initialWindowLength, processorOptions)]
  /\ UNCHANGED <<instanceCalls, moduleVars, processorVars, storageVars,
                 keydownVars>>

\* process() on the object i.
InstanceProcess(i, input) ==
  LET p == instances[i]
      smoothingWindowLengthSamples == windowLengthNumSecondsToSamples(p.param)
      diagnostic == DevError(IS_DEV_MODE, devErrorShown,
                             smoothingWindowLengthSamples, p.max)
      end == ProcessBody(InstanceView(instances, i), IS_DEV_MODE, input,
                         smoothingWindowLengthSamples)
      aloneEnd == ProcessBody(AloneView(instances, i), IS_DEV_MODE, input,
                              smoothingWindowLengthSamples)
  IN /\ p.phase = "constructed"
     /\ Len(instanceCalls) < MaxCalls + 1
     /\ instanceCalls' = Append(instanceCalls, i)
     /\ devErrorShown' = diagnostic.shown
     /\ numErrorsLogged' = numErrorsLogged + diagnostic.logged
     /\ mismatchSeen' = (mismatchSeen
                         \/ Mismatch(smoothingWindowLengthSamples, p.max))
     /\ instances' = [instances EXCEPT
                        ![i] = [p EXCEPT !.buf = end.buf, !.last = end.last,
                                         !.sum = end.sum, !.out = end.out,
                                         !.outcome = end.outcome,
                                         !.alone = Fields(aloneEnd)]]
     /\ UNCHANGED <<IS_DEV_MODE, processorVars, storageVars, keydownVars>>

Init ==
  /\ IS_DEV_MODE \in BOOLEAN
  /\ outputWritten = <<>>
  /\ blockShape = [hasChannels |-> FALSE, numSamples |-> 0]
  /\ numErrorsLogged = 0
  /\ mismatchSeen = FALSE
  /\ instances = [i \in InstanceIds |-> NoInstance]
  /\ instanceCalls = <<>>
  /\ nativeListeners = <<>>
  /\ wrapperSource = <<>>
  /\ srcListenerToWrapperListener = [l \in Listeners |-> 0]
  /\ attached = {}
  /\ dispatches = <<>>
  /\ numWarnings = 0
  /\ numStorageCalls = 0
  /\ popupDisableHotkeysWhileInputFocused = TRUE
  /\ timers = <<>>
  /\ effects = <<>>
  /\ handled = <<>>
  /\ numKeydowns = 0
  /\ phase = "none"
  /\ maxSmoothingWindowLength = 0
  /\ smoothingWindowLength = 0
  /\ ringBuffer = <<>>
  /\ lastSampleI = -1
  /\ currWindowSquaresSum = Num(0)
  /\ outputChannel = [i \in 1..SAMPLES_PER_QUANTUM |-> ZeroSample]
  /\ devErrorShown = FALSE
  /\ outcome = "none"
  /\ numCalls = 0
  /\ trace = <<>>
  /\ windowsUsed = {}

ConstructStep ==
  \E initialWindowLength \in CtorDurations,
     processorOptions \in {{}} \cup {{d} : d \in CtorDurations} :
    Construct(initialWindowLength, processorOptions)

ProcessStep == \E input \in Blocks : Process(input)

SetParameterStep == \E d \in ParamDurations : SetParameter(d)

\* The extension as deployed: the parameter keeps the value it was constructed
\* with.
Next == ConstructStep \/ ProcessStep

Spec == Init /\ [][Next]_vars

\* A host that also automates the parameter.
NextAutomation == ConstructStep \/ SetParameterStep \/ ProcessStep

SpecAutomation == Init /\ [][NextAutomation]_vars

InstanceConstructStep ==
  \E i \in InstanceIds, initialWindowLength \in InstanceDurations,
     processorOptions \in {{}} \cup {{d} : d \in InstanceDurations} :
    InstanceConstruct(i, initialWindowLength, processorOptions)

InstanceProcessStep ==
  \E i \in InstanceIds, input \in InstanceBlocks : InstanceProcess(i, input)

AddListenerStep == \E l \in Listeners : addOnChangedListener(l)

RemoveListenerStep == \E l \in Listeners : removeOnChangedListener(l)

StorageChangeStep ==
  \E changes \in ChangeSets, areaName \in Areas :
    StorageChange(changes, areaName)

\* The popup's storage listeners.
NextStorage == AddListenerStep \/ RemoveListenerStep \/ StorageChangeStep

SpecStorage == Init /\ [][NextStorage]_vars

KeydownStep == \E targetIsInput \in KeydownEvents : Keydown(targetIsInput)

\* The popup's keydown listener.
NextKeydown == KeydownStep \/ RunTimer \/ ChangeSetting

SpecKeydown == Init /\ [][NextKeydown]_vars

\* Two processors of one AudioWorkletGlobalScope, their process() calls
\* interleaved in any order.
NextInstances == InstanceConstructStep \/ InstanceProcessStep

SpecInstances == Init /\ [][NextInstances]_vars

\* ------------------------------------------------------------ properties
\* The capacity of the ring buffer.
Capacity == Length(ringBuffer)

\* The window of every call that ran the sample loop was W samples, and W is
\* a window the ring buffer covers.
FixedValidWindow(W) ==
  /\ windowsUsed = {W}
  /\ 1 <= W
  /\ W <= Capacity

\* Sum of the mean squares of the samples from..to of the history, those
\* before the first sample counting as 0.
RECURSIVE MeanSquaresSum(_, _)
MeanSquaresSum(from, to) ==
  IF to < from \/ to < 1 THEN 0
  ELSE trace[to].ms + MeanSquaresSum(from, to - 1)

\* The output sample a is sqrt(num / (Scale * den)); it equals |v| exactly
\* when num = v^2 * Scale * den.
EqualsAbs(a, v) == a.k = "sqrt" /\ a.den > 0 /\ a.num = v * v * Scale * a.den

\* a < b for two finite output samples
Less(a, b) ==
  /\ a.k = "sqrt" /\ b.k = "sqrt" /\ a.den > 0 /\ b.den > 0
  /\ a.num * b.den < b.num * a.den

\* The samples from..to of the history all carry the value v on every channel.
AllCarry(from, to, v) ==
  /\ 1 <= from
  /\ to <= Len(trace)
  /\ \A i \in from..to : trace[i].common = <<v>>

\* C1: with one window length W throughout, 1 <= W <= capacity, after every
\* processed sample the running sum is the sum of the mean squares of the
\* last W samples processed (samples before the first counting as 0), and
\* the output sample is sqrt(running sum / W).
C1_SlidingWindowReference ==
  \A W \in windowsUsed :
    FixedValidWindow(W) =>
      /\ \A j \in 1..Len(trace) :
           /\ trace[j].sum = Num(MeanSquaresSum(j - W + 1, j))
           /\ trace[j].volume = Sqrt(MeanSquaresSum(j - W + 1, j), W)
      /\ currWindowSquaresSum
           = Num(MeanSquaresSum(Len(trace) - W + 1, Len(trace)))

\* A window of two or more samples out of which a non-zero mean square has
\* fallen, while the sum is not zero.
C1_Witness ==
  \E W \in windowsUsed :
    /\ FixedValidWindow(W)
    /\ W >= 2
    /\ Len(trace) > W
    /\ trace[Len(trace) - W].ms > 0
    /\ trace[Len(trace)].ms # trace[Len(trace) - 1].ms
    /\ currWindowSquaresSum.v > 0

\* C2: for every depth 0 <= depth < capacity, getReverse(depth) returns the
\* value pushed depth pushes before the most recent one, or 0 when fewer
\* than depth + 1 values have been pushed.
C2_RingBufferContent ==
  phase = "constructed" =>
    \A depth \in 0..(Capacity - 1) :
      getReverse(IS_DEV_MODE, ringBuffer, lastSampleI, depth)
        = Slot(IF depth < Len(trace) THEN trace[Len(trace) - depth].ms ELSE 0)

\* Exactly capacity values pushed, the first and the last different: the
\* deepest lookup returns the first, the lookup at depth 0 the last.
C2_Witness ==
  /\ phase = "constructed"
  /\ Capacity >= 2
  /\ Len(trace) = Capacity
  /\ trace[1].ms # trace[Capacity].ms
  /\ getReverse(IS_DEV_MODE, ringBuffer, lastSampleI, Capacity - 1)
       = Slot(trace[1].ms)
  /\ getReverse(IS_DEV_MODE, ringBuffer, lastSampleI, 0)
       = Slot(trace[Capacity].ms)

\* The parameter lies in the valid range (0, maxWindowLength].
ValidWindowLength ==
  /\ 0 < smoothingWindowLength
  /\ smoothingWindowLength <= maxSmoothingWindowLength

\* An output sample that is a number >= 0 (NaN is not).
NonNegativeSample(a) ==
  \/ a.k = "Infinity"
  \/ a.k = "sqrt" /\ a.den > 0 /\ a.num >= 0

\* C3: in every reachable state the running sum is >= 0 and every output
\* sample written is >= 0.  (Stated for the processors the specification
\* accepts: a buffer of at least one slot and a window length in
\* (0, maxWindowLength].)
C3_NonNegative ==
  (phase = "constructed" /\ Capacity >= 1 /\ ValidWindowLength) =>
  /\ ~currWindowSquaresSum.nan
  /\ currWindowSquaresSum.v >= 0
  /\ \A j \in 1..Len(trace) :
       /\ ~trace[j].sum.nan
       /\ trace[j].sum.v >= 0
       /\ NonNegativeSample(trace[j].volume)
  /\ \A i \in DOMAIN outputChannel : NonNegativeSample(outputChannel[i])

\* The construction arguments the specification rejects: a duration <= 0, or
\* an initial window longer than the maximal one.
InvalidConfiguration(initialWindowLength, processorOptions) ==
  \/ initialWindowLength <= 0
  \/ \E max \in processorOptions : max <= 0 \/ initialWindowLength > max

\* C4: constructing with initialWindowLength > maxWindowLength, or with a
\* duration <= 0, fails at construction: no estimator is produced.
C4_ConstructionValidated ==
  [][\A initialWindowLength \in CtorDurations,
        processorOptions \in {{}} \cup {{d} : d \in CtorDurations} :
       (/\ InvalidConfiguration(initialWindowLength, processorOptions)
        /\ Construct(initialWindowLength, processorOptions))
       => phase' = "failed"]_vars

\* The depth process() passes to getReverse().
LookupDepth == windowLengthNumSecondsToSamples(smoothingWindowLength) - 1

\* The call that makes this step ran the sample loop on input.
RunsSampleLoop(input) ==
  /\ Len(input) >= 1
  /\ ~(IS_DEV_MODE /\ Len(input[1]) # SAMPLES_PER_QUANTUM)
  /\ Process(input)

\* C5: in every process call whose windowLength is in (0, maxWindowLength],
\* windowSamples does not exceed the capacity and the depth passed to
\* getReverse satisfies 0 <= depth < capacity.  (Stated for buffers of at
\* least one slot.)
C5_LookupPrecondition ==
  [][\A input \in Blocks :
       (RunsSampleLoop(input) /\ ValidWindowLength /\ Capacity >= 1)
       => /\ LookupDepth + 1 <= Capacity
          /\ 0 <= LookupDepth
          /\ LookupDepth < Capacity]_vars

\* C6: in development builds a getReverse(depth) with depth < 0 or
\* depth >= capacity throws a RangeError and leaves the buffer and the
\* cursor unchanged.  (Stated for buffers of at least one slot.)
C6_DevRangeError ==
  [][\A input \in Blocks :
       (/\ RunsSampleLoop(input)
        /\ IS_DEV_MODE
        /\ Capacity >= 1
        /\ (LookupDepth < 0 \/ LookupDepth >= Capacity))
       => /\ outcome' = "RangeError"
          /\ UNCHANGED <<ringBuffer, lastSampleI>>]_vars

\* C7: a process call with zero input channels leaves the output block, the
\* running sum, the ring buffer and its cursor as they were.
C7_ZeroChannelNoOp ==
  [][\A input \in Blocks :
       (Len(input) = 0 /\ Process(input))
       => UNCHANGED <<outputChannel, currWindowSquaresSum, ringBuffer,
                      lastSampleI>>]_vars

\* A zero-channel call made after samples were processed: the sum and the
\* output block are not the initial ones.
C7_Witness ==
  /\ outcome = "noInput"
  /\ trace # <<>>
  /\ currWindowSquaresSum.v > 0
  /\ outputChannel[1] # ZeroSample

\* The call that makes this step is a production call on a block of C >= 1
\* channels whose length is not SAMPLES_PER_QUANTUM.
ProductionOddBlock(input) ==
  /\ ~IS_DEV_MODE
  /\ Len(input) >= 1
  /\ Len(input[1]) # SAMPLES_PER_QUANTUM
  /\ Process(input)

\* C8 as stated: in production a call on a block of N # 128 samples leaves
\* the output untouched.  (Stated for window lengths in the valid range that
\* round to at least one sample.)
C8_OddBlockLeavesOutput ==
  [][\A input \in Blocks :
       (ProductionOddBlock(input) /\ ValidWindowLength /\ LookupDepth >= 0)
       => UNCHANGED outputChannel]_vars

\* C8 as amended: in production a call on a block of N # 128 samples does
\* not throw and processes the N samples like any other block: output
\* positions 0..N-1 receive the N new loudness values in order and the
\* positions from N on keep their content.
C8_OddBlockProcessed ==
  [][\A input \in Blocks :
       ProductionOddBlock(input)
       => /\ outcome' = "done"
          /\ Len(trace') = Len(trace) + Len(input[1])
          /\ \A i \in DOMAIN outputChannel :
               outputChannel'[i] =
                 IF i <= Len(input[1]) THEN trace'[Len(trace) + i].volume
                 ELSE outputChannel[i]]_vars

\* A production run whose only call had a block one sample short, and wrote
\* a non-zero loudness.
C8_Witness ==
  /\ ~IS_DEV_MODE
  /\ numCalls = 1
  /\ outcome = "done"
  /\ Len(trace) = SAMPLES_PER_QUANTUM - 1
  /\ outputChannel[1] = trace[1].volume
  /\ outputChannel[1] # ZeroSample

\* C9: with a fixed window of W samples, 1 <= W <= capacity, as soon as the
\* last W samples processed (the current one included) carry the same value
\* v on every channel, the output sample equals |v| and the running sum is
\* W * v^2 -- whatever the number of channels and whatever came before.
\* (The claim's case, W such samples before the current one, is included.)
C9_SteadyState ==
  \A W \in windowsUsed :
    FixedValidWindow(W) =>
      \A j \in 1..Len(trace), v \in Samples :
        AllCarry(j - W + 1, j, v)
        => /\ EqualsAbs(trace[j].volume, v)
           /\ trace[j].sum = Num(W * v * v * Scale)

\* W + 1 samples of a non-zero v after a sample that was not v, in a window
\* of W >= 2 samples.
C9_Witness ==
  \E W \in windowsUsed, v \in Samples \ {0} :
    /\ FixedValidWindow(W)
    /\ W >= 2
    /\ Len(trace) >= W + 2
    /\ AllCarry(Len(trace) - W, Len(trace), v)
    /\ trace[Len(trace) - W - 1].common # <<v>>
    /\ EqualsAbs(trace[Len(trace)].volume, v)

\* C10: with a fixed window of W samples, after at least W samples of 0 on
\* all channels, while a constant non-zero v is fed and fewer than W samples
\* of v have been fed before the current one, the output is strictly larger
\* than the previous output and does not exceed |v|.
C10_TransientFill ==
  \A W \in windowsUsed :
    FixedValidWindow(W) =>
      \A j \in 1..Len(trace), k \in 1..W, v \in Samples \ {0} :
        (AllCarry(j - k + 1, j, v) /\ AllCarry(j - k - W + 1, j - k, 0))
        => /\ Less(trace[j - 1].volume, trace[j].volume)
           /\ \/ EqualsAbs(trace[j].volume, v)
              \/ Less(trace[j].volume, Sqrt(v * v * Scale, 1))

\* W >= 2 zeros, then two samples of v: the second output is above the first
\* and the first is below |v|.
C10_Witness ==
  \E W \in windowsUsed, v \in Samples \ {0} :
    /\ FixedValidWindow(W)
    /\ W >= 2
    /\ Len(trace) >= W + 2
    /\ AllCarry(Len(trace) - 1, Len(trace), v)
    /\ AllCarry(Len(trace) - 1 - W, Len(trace) - 2, 0)
    /\ Less(trace[Len(trace) - 1].volume, trace[Len(trace)].volume)
    /\ Less(trace[Len(trace) - 1].volume, Sqrt(v * v * Scale, 1))

\* ------------------------------------------------------------------ C11
\* Whether the object i is run with a window other than its maximum.
Mismatched(i) ==
  /\ instances[i].phase = "constructed"
  /\ Mismatch(windowLengthNumSecondsToSamples(instances[i].param),
              instances[i].max)

\* C11: in a development build, over the process() calls on all the
\* processors, the window-length mismatch error is logged at most once, and
\* it has been logged as soon as one call has met the mismatch (so the first
\* such call logs it).
C11_OneShotDiagnostic ==
  IS_DEV_MODE =>
    /\ numErrorsLogged <= 1
    /\ (numErrorsLogged = 1) <=> mismatchSeen

\* Both processors mismatched, process() called on both, three calls, one error.
C11_Witness ==
  /\ IS_DEV_MODE
  /\ \A i \in InstanceIds : Mismatched(i)
  /\ Len(instanceCalls) = 3
  /\ instanceCalls[1] # instanceCalls[2]
  /\ numErrorsLogged = 1

\* ------------------------------------------------------------------ C12
\* The elements of a sequence.
Range(q) == {q[i] : i \in DOMAIN q}

\* The storage change a StorageChange step has just recorded.
LastDispatch == dispatches'[Len(dispatches')]

\* C12: a storage change in the area 'local' calls every listener attached
\* with addOnChangedListener, with the change set of the event and with
\* nothing else; a change in any other area calls no listener.
C12_AreaFiltered ==
  [][\A changes \in ChangeSets, areaName \in Areas :
       StorageChange(changes, areaName)
         => IF areaName = "local"
            THEN /\ \A l \in attached :
                      [listener |-> l, changes |-> changes]
                        \in Range(LastDispatch.called)
                 /\ \A c \in Range(LastDispatch.called) : c.changes = changes
            ELSE LastDispatch.called = <<>>]_vars

\* Two listeners attached; a 'local' change called both, then a 'sync'
\* change called none.
C12_Witness ==
  /\ attached = Listeners
  /\ Len(dispatches) = 2
  /\ dispatches[1].area = "local"
  /\ {c.listener : c \in Range(dispatches[1].called)} = Listeners
  /\ dispatches[2].area = "sync"
  /\ dispatches[2].called = <<>>

\* ------------------------------------------------------------------ C13
\* The positions 1..n in increasing order (the indices 0..n-1 of the code).
FirstPositions(n) == [i \in 1..n |-> i]

\* A process() call on a block with C >= 1 channels has just been made.
CalledWithChannels == numCalls' = numCalls + 1 /\ blockShape'.hasChannels

\* The claim as written: every process() call with C >= 1 channels of N
\* samples assigns exactly the output positions 0..N-1, once each (here for
\* a processor whose window length lies in the valid range).
C13_EveryCallWritesN ==
  [][(Capacity >= 1 /\ ValidWindowLength /\ CalledWithChannels)
       => outputWritten' = FirstPositions(blockShape'.numSamples)]_vars

\* C13: a process() call with C >= 1 channels of N samples that returns
\* assigns exactly the output positions 0..N-1, once each and in order, each
\* with the volume computed for that sample, and leaves every other position
\* as it was; a call that throws assigns no output position.
C13_ReturningCallWritesN ==
  [][CalledWithChannels
       => IF outcome' = "done"
          THEN /\ outputWritten' = FirstPositions(blockShape'.numSamples)
               /\ Len(trace') = Len(trace) + blockShape'.numSamples
               /\ \A i \in DOMAIN outputChannel :
                    outputChannel'[i] =
                      IF i <= blockShape'.numSamples
                      THEN trace'[Len(trace) + i].volume
                      ELSE outputChannel[i]
          ELSE /\ outcome' \in {"Error", "RangeError"}
               /\ outputWritten' = <<>>
               /\ outputChannel' = outputChannel]_vars

\* A second call, of one sample, has assigned position 0 only; position 1
\* still holds what the first call wrote there.
C13_Witness ==
  /\ numCalls = 2
  /\ outcome = "done"
  /\ outputWritten = <<1>>
  /\ Len(trace) = SAMPLES_PER_QUANTUM + 1
  /\ outputChannel[2] = trace[2].volume
  /\ outputChannel[1] = trace[3].volume
  /\ outputChannel[1] # outputChannel[2]

\* ------------------------------------------------------------------ C14
\* C14: in a development build, a process() call with C >= 1 whose block has
\* N # SAMPLES_PER_QUANTUM throws the Error before any sample is processed:
\* running sum, ring buffer, cursor and output block are as before the call.
C14_DevOddBlockThrowsFirst ==
  [][(/\ IS_DEV_MODE
      /\ CalledWithChannels
      /\ blockShape'.numSamples # SAMPLES_PER_QUANTUM)
       => /\ outcome' = "Error"
          /\ currWindowSquaresSum' = currWindowSquaresSum
          /\ ringBuffer' = ringBuffer
          /\ lastSampleI' = lastSampleI
          /\ outputChannel' = outputChannel
          /\ outputWritten' = <<>>
          /\ trace' = trace]_vars

\* The Error thrown by the second call, after a first call that left a
\* non-zero running sum and non-zero outputs.
C14_Witness ==
  /\ IS_DEV_MODE
  /\ numCalls = 2
  /\ outcome = "Error"
  /\ Len(trace) = SAMPLES_PER_QUANTUM
  /\ currWindowSquaresSum # Num(0)
  /\ outputChannel[1] # ZeroSample

\* ------------------------------------------------------------------ C15
\* The window lengths, in samples, a process() call can be made with.
WindowSamples == 0..(MaxWindowSamples + 1)

\* A full block of one channel.
FullBlock == <<[i \in 1..SAMPLES_PER_QUANTUM |-> -1]>>

\* C15: the capacity of the ring buffer is set by the constructor to
\* round(maxWindowLength * sampleRate), maxWindowLength being the processor
\* option or, without one, the initial windowLength parameter; after that no
\* step (a process() call with any block) changes it, and neither a push of
\* any value nor a process() call with any other window length would.
C15_FixedCapacity ==
  [][/\ \A initialWindowLength \in CtorDurations,
           processorOptions \in {{}} \cup {{d} : d \in CtorDurations} :
          (Construct(initialWindowLength, processorOptions)
           /\ phase' = "constructed")
            => Capacity' = windowLengthNumSecondsToSamples(
                             IF processorOptions = {} THEN initialWindowLength
                             ELSE CHOOSE d \in processorOptions : TRUE)
     /\ phase = "constructed"
          => /\ Capacity' = Capacity
             /\ Capacity =
                  windowLengthNumSecondsToSamples(maxSmoothingWindowLength)
             /\ \A val \in 0..Scale :
                  Length(push(ringBuffer', lastSampleI', val).buf) = Capacity
             /\ \A w \in WindowSamples :
                  Length(ProcessBody(
                           [buf |-> ringBuffer', last |-> lastSampleI',
                            sum |-> currWindowSquaresSum',
                            out |-> outputChannel', written |-> <<>>,
                            outcome |-> outcome', trace |-> <<>>],
                           IS_DEV_MODE, FullBlock, w).buf) = Capacity]_vars

\* A full buffer of capacity 2 given by the processor option, the window
\* shorter, after two calls that pushed more values than the buffer holds.
C15_Witness ==
  /\ phase = "constructed"
  /\ numCalls = 2
  /\ Capacity = 2
  /\ windowLengthNumSecondsToSamples(smoothingWindowLength) = 1
  /\ Len(trace) > Capacity
  /\ \A i \in DOMAIN ringBuffer : ringBuffer[i] # 0

\* ------------------------------------------------------------------ C16
\* The calls the handled events must have made: none for an event on an
\* input handled while the setting was on, else onNewSettingsValues and then
\* one message.
RECURSIVE EffectsOf(_)
EffectsOf(hs) ==
  IF hs = <<>> THEN <<>>
  ELSE (IF Head(hs).event.targetIsInput /\ Head(hs).setting
        THEN <<>>
        ELSE <<[call |-> "onNewSettingsValues", event |-> Head(hs).event.id],
               [call |-> "postMessage", event |-> Head(hs).event.id]>>)
       \o EffectsOf(Tail(hs))

\* C16: every keydown event is either waiting for its timer, and then no call
\* has been made for it (nothing happens inside the listener call), or its
\* deferred handler has run once; the calls made are, event after event,
\* none if the target is an input and popupDisableHotkeysWhileInputFocused
\* was on when the handler ran, else onNewSettingsValues once and then one
\* message posted.
C16_KeydownHandling ==
  /\ effects = EffectsOf(handled)
  /\ \A i \in DOMAIN timers, j \in DOMAIN effects :
       effects[j].event # timers[i].id
  /\ Len(handled) + Len(timers) = numKeydowns
  /\ {h.event.id : h \in Range(handled)} \cup {t.id : t \in Range(timers)}
       = 1..numKeydowns

\* Three events handled: one on an input with the setting on (no call), one
\* on an input with the setting off, one elsewhere with the setting on.
C16_Witness ==
  /\ Len(handled) = MaxKeydowns
  /\ timers = <<>>
  /\ \E h \in Range(handled) : h.event.targetIsInput /\ h.setting
  /\ \E h \in Range(handled) : h.event.targetIsInput /\ ~h.setting
  /\ \E h \in Range(handled) : ~h.event.targetIsInput /\ h.setting
  /\ Len(effects) = 4

\* ------------------------------------------------------------------ C17
\* C17: with the process() calls of two processors interleaved in any order,
\* each processor's running sum, ring buffer (contents and cursor) and output
\* block are those of its own calls run alone, whatever the shared flag
\* devErrorShown is.
C17_InstanceIsolation ==
  \A i \in InstanceIds : Fields(instances[i]) = instances[i].alone

\* Calls in the order 1, 2, 1, both processors having processed samples and
\* holding different sums, the shared flag set.
C17_Witness ==
  /\ Len(instanceCalls) = 3
  /\ instanceCalls[1] = instanceCalls[3]
  /\ instanceCalls[1] # instanceCalls[2]
  /\ \A i \in InstanceIds : instances[i].outcome = "done"
  /\ instances[1].sum # instances[2].sum
  /\ instances[1].buf # instances[2].buf
  /\ devErrorShown

\* ------------------------------------------------------------------ C18
\* C18: a storage change calls only listeners that were added and not
\* removed since, however often they were added or removed; and
\* removeOnChangedListener(l) for a listener l not attached unregisters
\* nothing.
C18_RemovalEffective ==
  [][/\ \A changes \in ChangeSets, areaName \in Areas :
          StorageChange(changes, areaName)
            => \A c \in Range(LastDispatch.called) : c.listener \in attached
     /\ \A l \in Listeners :
          (l \notin attached /\ removeOnChangedListener(l))
            => nativeListeners' = nativeListeners]_vars

=============================================================================
